---- MODULE Spec2Model ----
(***************************************************************************)
(* A model of src/src/App.jsx: the persisted-state layer (readStorage,     *)
(* writeStorage, useLocalStorageState), the buffer synchronisation with    *)
(* the diff widget (handleMount, the unmount cleanup, handleSwap,          *)
(* handleReset), the toast (showToast) and the clipboard (handleCopy).     *)
(*                                                                         *)
(* Text is a sequence of one-character strings, so that JSON.stringify and *)
(* JSON.parse are computed character by character.                         *)
(***************************************************************************)
EXTENDS Integers, Sequences, FiniteSets, TLC

\* Longest string the storage round trip is tried on.
MaxStrLen == 2

-----------------------------------------------------------------------------
(* JavaScript values: one record shape for every type, told apart by t.    *)

JStr(s)  == [t |-> "str",  s |-> s,    n |-> 0, b |-> FALSE]
JNum(n)  == [t |-> "num",  s |-> <<>>, n |-> n, b |-> FALSE]
JBool(b) == [t |-> "bool", s |-> <<>>, n |-> 0, b |-> b]
JNull    == [t |-> "null", s |-> <<>>, n |-> 0, b |-> FALSE]
JNaN     == [t |-> "nan",  s |-> <<>>, n |-> 0, b |-> FALSE]

\* Characters of the texts: a plain letter and the three characters that
\* JSON has to escape.
Quote     == "\""
Backslash == "\\"
Newline   == "\n"
Alphabet  == {"a", Quote, Backslash, Newline}

DigitChars == <<"0", "1", "2", "3", "4", "5", "6", "7", "8", "9">>
IsDigit(c) == \E i \in 1..10 : DigitChars[i] = c
DigitValue(c) == (CHOOSE i \in 1..10 : DigitChars[i] = c) - 1

Tail2(s) == SubSeq(s, 3, Len(s))

\* The strings of at most n characters.
RECURSIVE StringsUpTo(_)
StringsUpTo(n) ==
  IF n = 0 THEN {<<>>}
  ELSE LET shorter == StringsUpTo(n - 1)
       IN  shorter \cup {Append(s, c) : s \in shorter, c \in Alphabet}

-----------------------------------------------------------------------------
(* JSON.stringify and JSON.parse on the scalar values the fields hold.     *)

RECURSIVE NatToDigits(_)
NatToDigits(n) ==
  IF n < 10 THEN <<DigitChars[n + 1]>>
  ELSE NatToDigits(n \div 10) \o <<DigitChars[(n % 10) + 1]>>

RECURSIVE DigitsToNat(_)
DigitsToNat(d) ==
  IF d = <<>> THEN 0
  ELSE 10 * DigitsToNat(SubSeq(d, 1, Len(d) - 1)) + DigitValue(d[Len(d)])

\* JSON's escaping of a string's characters.
RECURSIVE Escape(_)
Escape(s) ==
  IF s = <<>> THEN <<>>
  ELSE LET c == Head(s)
       IN  (CASE c = Quote     -> <<Backslash, Quote>>
              [] c = Backslash -> <<Backslash, Backslash>>
              [] c = Newline   -> <<Backslash, "n">>
              [] OTHER         -> <<c>>) \o Escape(Tail(s))

\* The body of a JSON string literal read back: ok is FALSE where
\* JSON.parse throws (a bare quote, a bare control character, a bad escape).
RECURSIVE Unescape(_)
Unescape(b) ==
  IF b = <<>> THEN [ok |-> TRUE, s |-> <<>>]
  ELSE LET c == Head(b)
       IN  IF c = Backslash
           THEN IF Len(b) < 2 \/ b[2] \notin {Quote, Backslash, "n"}
                THEN [ok |-> FALSE, s |-> <<>>]
                ELSE LET rest == Unescape(Tail2(b))
                         ch   == IF b[2] = "n" THEN Newline ELSE b[2]
                     IN  [ok |-> rest.ok, s |-> <<ch>> \o rest.s]
           ELSE IF c \in {Quote, Newline}
           THEN [ok |-> FALSE, s |-> <<>>]
           ELSE LET rest == Unescape(Tail(b))
                IN  [ok |-> rest.ok, s |-> <<c>> \o rest.s]

JSONstringify(v) ==
  CASE v.t = "str"  -> <<Quote>> \o Escape(v.s) \o <<Quote>>
    [] v.t = "bool" -> IF v.b THEN <<"t", "r", "u", "e">>
                       ELSE <<"f", "a", "l", "s", "e">>
    [] v.t = "num"  -> IF v.n < 0 THEN <<"-">> \o NatToDigits(-v.n)
                       ELSE NatToDigits(v.n)
    [] OTHER        -> <<"n", "u", "l", "l">>

\* A JSON integer literal: digits without a leading zero.
IsJSONNat(d) ==
  /\ Len(d) >= 1
  /\ \A i \in 1..Len(d) : IsDigit(d[i])
  /\ Len(d) > 1 => d[1] # "0"

\* JSON.parse: ok is FALSE where it throws a SyntaxError.
JSONparse(raw) ==
  LET bad == [ok |-> FALSE, val |-> JNull]
  IN  IF raw = <<"t", "r", "u", "e">> THEN [ok |-> TRUE, val |-> JBool(TRUE)]
      ELSE IF raw = <<"f", "a", "l", "s", "e">>
      THEN [ok |-> TRUE, val |-> JBool(FALSE)]
      ELSE IF raw = <<"n", "u", "l", "l">> THEN [ok |-> TRUE, val |-> JNull]
      ELSE IF raw = <<>> THEN bad
      ELSE IF raw[1] = Quote
      THEN IF Len(raw) < 2 \/ raw[Len(raw)] # Quote THEN bad
           ELSE LET body == Unescape(SubSeq(raw, 2, Len(raw) - 1))
                IN  IF body.ok THEN [ok |-> TRUE, val |-> JStr(body.s)] ELSE bad
      ELSE IF raw[1] = "-"
      THEN IF IsJSONNat(Tail(raw))
           THEN [ok |-> TRUE, val |-> JNum(-DigitsToNat(Tail(raw)))]
           ELSE bad
      ELSE IF IsJSONNat(raw) THEN [ok |-> TRUE, val |-> JNum(DigitsToNat(raw))]
      ELSE bad

\* Number(string) on what a number input hands over: the empty string is 0,
\* a decimal numeral is its value, anything else is NaN.
JSNumber(str) ==
  IF str = <<>> THEN JNum(0)
  ELSE IF \A i \in 1..Len(str) : IsDigit(str[i]) THEN JNum(DigitsToNat(str))
  ELSE IF str[1] = "-" /\ Len(str) > 1
          /\ \A i \in 2..Len(str) : IsDigit(str[i])
  THEN JNum(-DigitsToNat(Tail(str)))
  ELSE JNaN

-----------------------------------------------------------------------------
(* The constants of App.jsx.  A language or theme id holds no character    *)
(* that JSON escapes and is kept as one symbol; the two sample texts are   *)
(* cut down to the kinds of character they hold (a letter, a double quote  *)
(* or a backslash, a newline).                                             *)

LANGUAGES == {JStr(<<"plaintext">>), JStr(<<"javascript">>)}
THEMES    == {JStr(<<"vs-dark">>), JStr(<<"light">>)}

SAMPLE_ORIGINAL == JStr(<<"a", Quote, Newline>>)
SAMPLE_MODIFIED == JStr(<<"a", Backslash, Newline>>)

Regions == {"original", "modified"}
Options == {"language", "theme", "sideBySide", "ignoreTrimWhitespace", "fontSize"}
Fields  == Regions \cup Options

\* The key of each persisted field (the first argument of its
\* useLocalStorageState call).
Key(f) ==
  CASE f = "original"             -> "codeDiff.original"
    [] f = "modified"             -> "codeDiff.modified"
    [] f = "language"             -> "codeDiff.language"
    [] f = "theme"                -> "codeDiff.theme"
    [] f = "sideBySide"           -> "codeDiff.sideBySide"
    [] f = "ignoreTrimWhitespace" -> "codeDiff.ignoreTrimWhitespace"
    [] f = "fontSize"             -> "codeDiff.fontSize"
Keys == {Key(f) : f \in Fields}

\* The initial value of each field (the second argument).
initialValue(f) ==
  CASE f = "original"             -> SAMPLE_ORIGINAL
    [] f = "modified"             -> SAMPLE_MODIFIED
    [] f = "language"             -> JStr(<<"javascript">>)
    [] f = "theme"                -> JStr(<<"vs-dark">>)
    [] f = "sideBySide"           -> JBool(TRUE)
    [] f = "ignoreTrimWhitespace" -> JBool(TRUE)
    [] f = "fontSize"             -> JNum(14)

\* What an edit can make a region of the widget hold (one sample text typed
\* over the other), and what the font size input can hand to its onChange
\* (the empty string when it holds no number).
Texts      == {SAMPLE_ORIGINAL, SAMPLE_MODIFIED}
FontInputs == {<<>>, <<"1", "8">>}

NoToast  == "null"
Messages == {"Copied", "Copy failed", "Reset"}

\* Timer ids and subscription handle ids the model hands out.
MaxTimers  == 2
MaxHandles == 4
\* Clipboard writes that can be in flight together.
MaxCopies  == 1

-----------------------------------------------------------------------------
VARIABLES
  storage,        \* window.localStorage: key -> stored text, on the keys present
  access,         \* what the browser lets the page do with localStorage
  st,             \* the seven persisted fields as of the last render
  toast,          \* the toast as of the last render
  pend,           \* per field: setter calls queued since the last render, folded
  pendToast,      \* the same for setToast
  effq,           \* fields whose persistence effect is due after the last render
  propDirty,      \* regions whose prop changed in the last render
  work,           \* what React has to do next: "idle", "render", "widget", "effects"
  event,          \* the handler whose setter calls React is working on, or "none"
  phase,          \* "live" while App is mounted, "gone" after its unmount
  diffEditorRef,  \* diffEditorRef.current: "null" or "editor"
  wtext,          \* the text of the widget's two regions
  listeners,      \* the content-change subscriptions the widget holds
  disposablesRef, \* disposablesRef.current: the handles handleMount kept
  toastTimer,     \* toastTimer.current: 0 or the id of the last timer set
  timers,         \* the pending timeouts of the window
  inflight,       \* clipboard writes not yet resolved (their texts)
  probe           \* the call under test of the storage round trip

storeVars == <<storage, access>>
appVars == <<st, toast, pend, pendToast, effq, propDirty, work, event, phase,
             diffEditorRef, wtext, listeners, disposablesRef, toastTimer,
             timers, inflight>>
vars == <<storeVars, appVars, probe>>

-----------------------------------------------------------------------------
(* readStorage and writeStorage.  access is "ok", "quota" (setItem throws), *)
(* "denied" (getItem and setItem throw) or "nowindow" (no window object).  *)

Put(store, key, raw) ==
  [k \in (DOMAIN store) \cup {key} |-> IF k = key THEN raw ELSE store[k]]

\* A bug readStorage does not have: no try/catch around the read.
readStorageNoCatch(key, fallback) ==
  IF access = "nowindow" THEN [threw |-> FALSE, val |-> fallback]
  ELSE IF access = "denied" THEN [threw |-> TRUE, val |-> fallback]
  ELSE IF key \notin DOMAIN storage THEN [threw |-> FALSE, val |-> fallback]
  ELSE LET r == JSONparse(storage[key])
       IN  [threw |-> ~r.ok, val |-> r.val]

readStorage(key, fallback) ==
  IF access = "nowindow" THEN [threw |-> FALSE, val |-> fallback]
  ELSE IF access = "denied" THEN [threw |-> FALSE, val |-> fallback]
  ELSE IF key \notin DOMAIN storage THEN [threw |-> FALSE, val |-> fallback]
  ELSE LET r == JSONparse(storage[key])
       IN  [threw |-> FALSE, val |-> IF r.ok THEN r.val ELSE fallback]

\* String(value): what setItem would store of a value handed over as it is.
JSString(v) == IF v.t = "str" THEN v.s ELSE JSONstringify(v)

\* A bug writeStorage does not have: the value stored without
\* JSON.stringify.
writeStorageUnserialized(store, key, value) ==
  [threw |-> FALSE,
   store |-> IF access = "ok" THEN Put(store, key, JSString(value)) ELSE store]

\* A bug writeStorage does not have: no try/catch around setItem.
writeStorageNoCatch(store, key, value) ==
  [threw |-> access \in {"quota", "denied"},
   store |-> IF access = "ok" THEN Put(store, key, JSONstringify(value)) ELSE store]

\* writeStorage(key, value) on the store: the store afterwards, and whether
\* the call threw.  setItem throws when the quota is exceeded or the storage
\* is denied, window.localStorage throws without a window; the catch
\* swallows each.
writeStorage(store, key, value) ==
  [threw |-> FALSE,
   store |-> IF access = "ok" THEN Put(store, key, JSONstringify(value)) ELSE store]

-----------------------------------------------------------------------------
(* The storage round trip on its own: writeStorage and readStorage called  *)
(* on one key, with no App mounted.                                        *)

NoProbe == [phase |-> "off", key |-> "", value |-> JNull, fallback |-> JNull,
            seed |-> "absent", wrote |-> FALSE, threw |-> FALSE, ret |-> JNull]

EmptyStore == [k \in {} |-> <<>>]

\* Stored texts JSON.parse rejects: nothing, an open brace, an unterminated
\* string, a cut-off literal, a numeral with a leading zero, a string
\* followed by a stray quote.
CorruptRaws == {<<>>, <<"{">>, <<Quote, "a">>, <<"t", "r", "u">>, <<"0", "1">>,
                <<Quote, Quote, Quote>>}

ProbeNumbers == {-1, 0, 7, 10, 14, 18, 24, 100}
ProbeValues ==
  {JStr(s) : s \in StringsUpTo(MaxStrLen)} \cup Texts \cup LANGUAGES \cup THEMES
    \cup {JBool(TRUE), JBool(FALSE)} \cup {JNum(n) : n \in ProbeNumbers}
ProbeFallbacks == {SAMPLE_ORIGINAL, JBool(TRUE), JNum(14)}

\* The App is not mounted.
AppOff ==
  /\ st = [f \in Fields |-> initialValue(f)]
  /\ toast = NoToast
  /\ pend = [f \in Fields |-> [n |-> 0, v |-> JNull]]
  /\ pendToast = [n |-> 0, v |-> NoToast]
  /\ effq = {}
  /\ propDirty = {}
  /\ work = "idle"
  /\ event = "none"
  /\ phase = "off"
  /\ diffEditorRef = "null"
  /\ wtext = [r \in Regions |-> JStr(<<>>)]
  /\ listeners = {}
  /\ disposablesRef = <<>>
  /\ toastTimer = 0
  /\ timers = {}
  /\ inflight = <<>>

StoreInit ==
  /\ access \in {"ok", "quota", "denied", "nowindow"}
  /\ \E key \in Keys, seed \in {"absent", "corrupt", "valid"} :
       /\ \/ seed = "absent" /\ storage = EmptyStore
          \/ seed = "corrupt" /\ \E raw \in CorruptRaws : storage = Put(EmptyStore, key, raw)
          \/ seed = "valid"
             /\ storage = Put(EmptyStore, key, JSONstringify(JStr(<<"a">>)))
       /\ \E value \in ProbeValues, fallback \in ProbeFallbacks :
            probe = [NoProbe EXCEPT !.phase = "init", !.key = key, !.seed = seed,
                                    !.value = value, !.fallback = fallback]
  /\ AppOff

ProbeWrite ==
  /\ probe.phase = "init"
  /\ storage' = writeStorage(storage, probe.key, probe.value).store
  /\ probe' = [probe EXCEPT !.phase = "written"]
  /\ UNCHANGED <<access, appVars>>

ProbeRead ==
  /\ probe.phase \in {"init", "written"}
  /\ LET r == readStorage(probe.key, probe.fallback)
     IN  probe' = [probe EXCEPT !.phase = "read", !.wrote = (probe.phase = "written"),
                                !.threw = r.threw, !.ret = r.val]
  /\ UNCHANGED <<storeVars, appVars>>

StoreNext == ProbeWrite \/ ProbeRead

SpecStore == StoreInit /\ [][StoreNext]_vars

\* C1: a value written under a key is what a read of the key on a fresh
\* load returns, whatever the fallback (the store taking the write).
StorageRoundTrip ==
  (probe.phase = "read" /\ probe.wrote /\ access = "ok")
    => (~probe.threw /\ probe.ret = probe.value)

\* A string with a quote in it was written and read back, over older
\* contents of the key, with a fallback that differs from it.
StorageRoundTripWitness ==
  /\ probe.phase = "read" /\ probe.wrote /\ access = "ok"
  /\ probe.seed = "corrupt"
  /\ probe.value = JStr(<<Quote, "a">>)
  /\ probe.fallback # probe.value
  /\ probe.ret = probe.value

\* C2: readStorage returns the fallback and throws nothing when the key is
\* absent, the stored text does not parse, or the storage cannot be read.
ReadFallsBack ==
  (/\ probe.phase = "read"
   /\ ~probe.wrote
   /\ probe.seed \in {"absent", "corrupt"} \/ access \in {"denied", "nowindow"})
    => (~probe.threw /\ probe.ret = probe.fallback)

\* A read of a key holding unparseable text, on a storage that can be read.
ReadFallsBackWitness ==
  /\ probe.phase = "read" /\ ~probe.wrote
  /\ probe.seed = "corrupt" /\ access = "ok"
  /\ probe.key \in DOMAIN storage /\ storage[probe.key] = <<Quote, "a">>
  /\ probe.ret = probe.fallback

-----------------------------------------------------------------------------
(* React state.  A setter call is queued and applied by the next render;   *)
(* the queue of a field is kept as its length n and the value v that       *)
(* applying its updaters in order yields.  An event handler runs to its    *)
(* end, then React renders, the widget takes its new props, and the        *)
(* effects whose dependencies changed run, before the next event is        *)
(* handled.                                                                *)

NoPend == [f \in Fields |-> [n |-> 0, v |-> JNull]]
NoPendToast == [n |-> 0, v |-> NoToast]

\* The value the next updater of field f is applied to.
Cur(p, f) == IF p[f].n > 0 THEN p[f].v ELSE st[f]

\* setX(v), and setX(fn) with v the value fn returns.
Enq(p, f, v) == [p EXCEPT ![f] = [n |-> @.n + 1, v |-> v]]

Pending == pendToast.n > 0 \/ \E f \in Fields : pend[f].n > 0

Truthy(v) ==
  CASE v.t = "bool" -> v.b
    [] v.t = "num"  -> v.n # 0
    [] v.t = "str"  -> v.s # <<>>
    [] OTHER        -> FALSE

\* (v) => !v
Negated(v) == JBool(~Truthy(v))

\* (prev) => (prev === v ? prev : v)
Dedup(prev, v) == IF prev = v THEN prev ELSE v

\* Number(value) of a value a field can hold.
ToNumber(v) ==
  CASE v.t = "num"  -> v
    [] v.t = "str"  -> JSNumber(v.s)
    [] v.t = "bool" -> JNum(IF v.b THEN 1 ELSE 0)
    [] v.t = "null" -> JNum(0)
    [] OTHER        -> JNaN

\* a || b
OrElse(a, b) == IF Truthy(a) THEN a ELSE b

\* A bug options does not have: the font size without its || 14.
optionsNoFallback(s) ==
  [renderSideBySide     |-> JBool(Truthy(s["sideBySide"])),
   ignoreTrimWhitespace |-> JBool(Truthy(s["ignoreTrimWhitespace"])),
   fontSize             |-> ToNumber(s["fontSize"])]

\* The options handed to the widget, of the fields s (those that depend on
\* a field).
options(s) ==
  [renderSideBySide     |-> JBool(Truthy(s["sideBySide"])),
   ignoreTrimWhitespace |-> JBool(Truthy(s["ignoreTrimWhitespace"])),
   fontSize             |-> OrElse(ToNumber(s["fontSize"]), JNum(14))]

\* useState(() => readStorage(key, initialValue))
useLocalStorageState(f) == readStorage(Key(f), initialValue(f)).val

\* A session saved earlier with every field off its default.
SavedStore ==
  [k \in Keys |->
     CASE k = Key("original")   -> JSONstringify(SAMPLE_MODIFIED)
       [] k = Key("modified")   -> JSONstringify(SAMPLE_ORIGINAL)
       [] k = Key("language")   -> JSONstringify(JStr(<<"plaintext">>))
       [] k = Key("theme")      -> JSONstringify(JStr(<<"light">>))
       [] k = Key("sideBySide") -> JSONstringify(JBool(FALSE))
       [] k = Key("ignoreTrimWhitespace") -> JSONstringify(JBool(FALSE))
       [] k = Key("fontSize")   -> JSONstringify(JNum(18))]

\* A store whose text for the original buffer does not parse.
CorruptStore == [SavedStore EXCEPT ![Key("original")] = <<Quote, "a">>]

\* The first render of App over the storage as it is, its mount effects
\* still to run.
FirstRender ==
  /\ st = [f \in Fields |-> useLocalStorageState(f)]
  /\ toast = NoToast
  /\ pend = NoPend
  /\ pendToast = NoPendToast
  /\ effq = Fields
  /\ propDirty = {}
  /\ work = "effects"
  /\ event = "none"
  /\ phase = "live"
  /\ diffEditorRef = "null"
  /\ wtext = [r \in Regions |-> JStr(<<>>)]
  /\ listeners = {}
  /\ disposablesRef = <<>>
  /\ toastTimer = 0
  /\ timers = {}
  /\ inflight = <<>>
  /\ probe = NoProbe

\* App is loaded with a storage that works.
Init ==
  /\ access = "ok"
  /\ storage \in {EmptyStore, SavedStore, CorruptStore}
  /\ FirstRender

\* App is loaded with a storage that takes no write: its quota is used up,
\* or the browser denies it, in which case it cannot be read either.
InitFailing ==
  /\ access \in {"quota", "denied"}
  /\ storage = SavedStore
  /\ FirstRender

\* Values that a storage written by something other than this App can hold
\* under a key: readStorage returns whatever JSON.parse makes of the text.
ForeignValues ==
  {JNum(0), JNum(14), JNum(24), JNum(-1), JStr(<<>>), JStr(<<"a">>),
   JStr(<<"0">>), JStr(<<"1", "8">>), JBool(TRUE), JBool(FALSE), JNull}

\* App is loaded with a storage that holds such values for the font size
\* and the side-by-side flag.
InitForeign ==
  /\ access = "ok"
  /\ \E size \in ForeignValues, flag \in {JBool(TRUE), JNum(0), JStr(<<"a">>), JNull} :
       storage = [SavedStore EXCEPT ![Key("fontSize")] = JSONstringify(size),
                                    ![Key("sideBySide")] = JSONstringify(flag)]
  /\ FirstRender

Ready == phase = "live" /\ work = "idle"

\* What a handler that called a setter leaves React to do, and for which
\* handler: a render, unless App is unmounted.
AfterHandler == IF phase = "live" THEN "render" ELSE work
AfterEvent(name) == IF phase = "live" THEN name ELSE event
\* The handler is done with once React is idle again.
Settle(w, e) == IF w = "idle" THEN "none" ELSE e

Range(seq) == {seq[i] : i \in 1..Len(seq)}

Least(S) == CHOOSE i \in S : \A j \in S : i <= j

-----------------------------------------------------------------------------
(* The option controls.                                                    *)

SetLanguage ==
  /\ Ready
  /\ \E l \in LANGUAGES : pend' = Enq(pend, "language", l)
  /\ work' = AfterHandler
  /\ event' = AfterEvent("language")
  /\ UNCHANGED <<storeVars, st, toast, pendToast, effq, propDirty, phase,
                 diffEditorRef, wtext, listeners, disposablesRef, toastTimer,
                 timers, inflight, probe>>

SetTheme ==
  /\ Ready
  /\ \E t \in THEMES : pend' = Enq(pend, "theme", t)
  /\ work' = AfterHandler
  /\ event' = AfterEvent("theme")
  /\ UNCHANGED <<storeVars, st, toast, pendToast, effq, propDirty, phase,
                 diffEditorRef, wtext, listeners, disposablesRef, toastTimer,
                 timers, inflight, probe>>

\* A bug the font size input does not have: e.target.value is stored as
\* the string it is.
SetFontSizeRaw ==
  /\ Ready
  /\ \E input \in FontInputs : pend' = Enq(pend, "fontSize", JStr(input))
  /\ work' = AfterHandler
  /\ event' = AfterEvent("fontSize")
  /\ UNCHANGED <<storeVars, st, toast, pendToast, effq, propDirty, phase,
                 diffEditorRef, wtext, listeners, disposablesRef, toastTimer,
                 timers, inflight, probe>>

\* setFontSize(Number(e.target.value))
SetFontSize ==
  /\ Ready
  /\ \E input \in FontInputs : pend' = Enq(pend, "fontSize", JSNumber(input))
  /\ work' = AfterHandler
  /\ event' = AfterEvent("fontSize")
  /\ UNCHANGED <<storeVars, st, toast, pendToast, effq, propDirty, phase,
                 diffEditorRef, wtext, listeners, disposablesRef, toastTimer,
                 timers, inflight, probe>>

ToggleSideBySide ==
  /\ Ready
  /\ pend' = Enq(pend, "sideBySide", Negated(Cur(pend, "sideBySide")))
  /\ work' = AfterHandler
  /\ event' = AfterEvent("sideBySide")
  /\ UNCHANGED <<storeVars, st, toast, pendToast, effq, propDirty, phase,
                 diffEditorRef, wtext, listeners, disposablesRef, toastTimer,
                 timers, inflight, probe>>

ToggleIgnoreTrimWhitespace ==
  /\ Ready
  /\ pend' = Enq(pend, "ignoreTrimWhitespace",
                 Negated(Cur(pend, "ignoreTrimWhitespace")))
  /\ work' = AfterHandler
  /\ event' = AfterEvent("ignoreTrimWhitespace")
  /\ UNCHANGED <<storeVars, st, toast, pendToast, effq, propDirty, phase,
                 diffEditorRef, wtext, listeners, disposablesRef, toastTimer,
                 timers, inflight, probe>>

-----------------------------------------------------------------------------
(* The toast.                                                              *)

\* A bug showToast does not have: the timer of the toast before is left.
showToastNoClear(message) ==
  /\ pendToast' = [n |-> pendToast.n + 1, v |-> message]
  /\ LET free == {i \in 1..MaxTimers : i \notin {t.id : t \in timers}}
     IN  /\ free # {}
         /\ timers' = timers \cup {[id |-> Least(free), msg |-> message]}
         /\ toastTimer' = Least(free)

\* A bug showToast does not have: the id of the new timer is not kept.
showToastForgetsTimer(message) ==
  /\ pendToast' = [n |-> pendToast.n + 1, v |-> message]
  /\ LET cleared == IF toastTimer # 0
                    THEN {t \in timers : t.id # toastTimer}
                    ELSE timers
         free == {i \in 1..MaxTimers : i \notin {t.id : t \in cleared}}
     IN  /\ free # {}
         /\ timers' = cleared \cup {[id |-> Least(free), msg |-> message]}
         /\ toastTimer' = toastTimer

\* setToast(message), clearTimeout of the timer set before, setTimeout.
showToast(message) ==
  /\ pendToast' = [n |-> pendToast.n + 1, v |-> message]
  /\ LET cleared == IF toastTimer # 0
                    THEN {t \in timers : t.id # toastTimer}
                    ELSE timers
         free == {i \in 1..MaxTimers : i \notin {t.id : t \in cleared}}
     IN  /\ free # {}
         /\ timers' = cleared \cup {[id |-> Least(free), msg |-> message]}
         /\ toastTimer' = Least(free)

\* A timeout expires and runs () => setToast(null).
TimerFire ==
  /\ work = "idle"
  /\ \E t \in timers : timers' = timers \ {t}
  /\ pendToast' = [n |-> pendToast.n + 1, v |-> NoToast]
  /\ work' = AfterHandler
  /\ event' = AfterEvent("timer")
  /\ UNCHANGED <<storeVars, st, toast, pend, effq, propDirty, phase,
                 diffEditorRef, wtext, listeners, disposablesRef, toastTimer,
                 inflight, probe>>

-----------------------------------------------------------------------------
(* The clipboard.  A write in flight is the text handed to writeText and   *)
(* what the browser does with it, decided when the write is issued.        *)

ClipOutcomes == {"written", "rejected", "unavailable"}

\* A bug copyToClipboard does not have: no try/catch around the write.
copyToClipboardNoCatch(outcome) ==
  [threw |-> outcome # "written", ok |-> outcome = "written"]

\* copyToClipboard(text), given what the browser does with the write.
copyToClipboard(outcome) == [threw |-> FALSE, ok |-> outcome = "written"]

\* A bug handleCopy does not have: the buffer that is copied is emptied, as
\* a cut would.
HandleCopyCut ==
  /\ Ready
  /\ Len(inflight) < MaxCopies
  /\ \E which \in Regions, outcome \in ClipOutcomes :
       /\ inflight' = Append(inflight, outcome)
       /\ pend' = Enq(pend, which, JStr(<<>>))
  /\ work' = AfterHandler
  /\ event' = AfterEvent("copy")
  /\ UNCHANGED <<storeVars, st, toast, pendToast, effq, propDirty, phase,
                 diffEditorRef, wtext, listeners, disposablesRef, toastTimer,
                 timers, probe>>

\* handleCopy(which) up to its await.  The text of the buffer goes to the
\* system clipboard, which is no part of the state.
HandleCopy ==
  /\ Ready
  /\ Len(inflight) < MaxCopies
  /\ \E which \in Regions, outcome \in ClipOutcomes :
       inflight' = Append(inflight, outcome)
  /\ UNCHANGED <<storeVars, st, toast, pend, pendToast, effq, propDirty, work,
                 event, phase, diffEditorRef, wtext, listeners, disposablesRef,
                 toastTimer, timers, probe>>

\* handleCopy(which) from its await on: showToast of the outcome.  Were
\* copyToClipboard to throw, handleCopy would reject before showToast.
CopyResolve ==
  /\ work = "idle"
  /\ inflight # <<>>
  /\ inflight' = Tail(inflight)
  /\ LET r == copyToClipboard(Head(inflight))
     IN  IF r.threw
         THEN UNCHANGED <<pendToast, timers, toastTimer, work, event>>
         ELSE /\ showToast(IF r.ok THEN "Copied" ELSE "Copy failed")
              /\ work' = AfterHandler
              /\ event' = AfterEvent("copy")
  /\ UNCHANGED <<storeVars, st, toast, pend, effq, propDirty, phase,
                 diffEditorRef, wtext, listeners, disposablesRef, probe>>

-----------------------------------------------------------------------------
(* The diff widget and its subscriptions.  A handle is the disposable that *)
(* onDidChangeModelContent returns; the widget calls the callback of every *)
(* handle it still holds for the region whose content changed.             *)

Handle(i, r) == [id |-> i, region |-> r]

\* d?.dispose?.() on every handle of ds.
DisposeAll(ls, ds) == ls \ Range(ds)

\* A bug: the handles are dropped without being disposed.
DisposeNone(ls, ds) == ls

ListenersOf(r) == {h \in listeners : h.region = r}

\* A bug the callbacks do not have: the updater keeps the buffer it is
\* given, (prev) => prev.
DeliverKeepsPrev(p, r, v) ==
  LET k == Cardinality(ListenersOf(r))
  IN  IF k = 0 THEN p
      ELSE [p EXCEPT ![r] = [n |-> @.n + k, v |-> Cur(p, r)]]

\* A bug the callbacks do not have: the setter is given a text other than
\* the one the widget holds (the text put through a filter, say).
DeliverFiltered(p, r, v) ==
  LET k == Cardinality(ListenersOf(r))
  IN  IF k = 0 THEN p
      ELSE [p EXCEPT ![r] = [n |-> @.n + k,
                             v |-> CHOOSE t \in Texts : t # v]]

\* The callbacks of region r run on a content change to text v: each calls
\* the region's setter with (prev) => (prev === v ? prev : v).
Deliver(p, r, v) ==
  LET k == Cardinality(ListenersOf(r))
  IN  IF k = 0 THEN p
      ELSE [p EXCEPT ![r] = [n |-> @.n + k, v |-> Dedup(Cur(p, r), v)]]

\* A bug handleMount does not have: the handles kept before are forgotten
\* without being disposed.
handleMountNoDispose ==
  /\ Ready
  /\ diffEditorRef' = "editor"
  /\ wtext' = IF diffEditorRef = "null" THEN [r \in Regions |-> st[r]] ELSE wtext
  /\ LET kept == DisposeNone(listeners, disposablesRef)
         free == {i \in 1..MaxHandles :
                    i \notin {h.id : h \in listeners \cup Range(disposablesRef)}}
     IN  /\ Cardinality(free) >= 2
         /\ LET d1 == Handle(Least(free), "original")
                d2 == Handle(Least(free \ {d1.id}), "modified")
            IN  /\ listeners' = kept \cup {d1, d2}
                /\ disposablesRef' = <<d1, d2>>
  /\ UNCHANGED <<storeVars, st, toast, pend, pendToast, effq, propDirty, work,
                 event, phase, toastTimer, timers, inflight, probe>>

\* handleMount(editor).  The first call is the widget's creation, with the
\* buffers as its texts; a later call is a remount of the same widget.
handleMount ==
  /\ Ready
  /\ diffEditorRef' = "editor"
  /\ wtext' = IF diffEditorRef = "null" THEN [r \in Regions |-> st[r]] ELSE wtext
  /\ LET kept == DisposeAll(listeners, disposablesRef)
         free == {i \in 1..MaxHandles :
                    i \notin {h.id : h \in listeners \cup Range(disposablesRef)}}
     IN  /\ Cardinality(free) >= 2
         /\ LET d1 == Handle(Least(free), "original")
                d2 == Handle(Least(free \ {d1.id}), "modified")
            IN  /\ listeners' = kept \cup {d1, d2}
                /\ disposablesRef' = <<d1, d2>>
  /\ UNCHANGED <<storeVars, st, toast, pend, pendToast, effq, propDirty, work,
                 event, phase, toastTimer, timers, inflight, probe>>

\* A bug the cleanup does not have: the handles are not disposed.
UnmountNoDispose ==
  /\ Ready
  /\ listeners' = DisposeNone(listeners, disposablesRef)
  /\ disposablesRef' = <<>>
  /\ timers' = IF toastTimer # 0 THEN {t \in timers : t.id # toastTimer} ELSE timers
  /\ phase' = "gone"
  /\ UNCHANGED <<storeVars, st, toast, pend, pendToast, effq, propDirty, work,
                 event, diffEditorRef, wtext, toastTimer, inflight, probe>>

\* The cleanup of App's mount effect, run when App unmounts.
Unmount ==
  /\ Ready
  /\ listeners' = DisposeAll(listeners, disposablesRef)
  /\ disposablesRef' = <<>>
  /\ timers' = IF toastTimer # 0 THEN {t \in timers : t.id # toastTimer} ELSE timers
  /\ phase' = "gone"
  /\ UNCHANGED <<storeVars, st, toast, pend, pendToast, effq, propDirty, work,
                 event, diffEditorRef, wtext, toastTimer, inflight, probe>>

\* The content of a region changes in the widget (typing, a paste, or an
\* edit that leaves the text as it was), and the widget tells its listeners.
WidgetEdit ==
  /\ work = "idle"
  /\ diffEditorRef = "editor"
  /\ \E r \in Regions, v \in Texts :
       /\ wtext' = [wtext EXCEPT ![r] = v]
       /\ pend' = Deliver(pend, r, v)
       /\ work' = IF ListenersOf(r) # {} THEN AfterHandler ELSE work
       /\ event' = IF ListenersOf(r) # {} THEN AfterEvent("edit") ELSE event
  /\ UNCHANGED <<storeVars, st, toast, pendToast, effq, propDirty, phase,
                 diffEditorRef, listeners, disposablesRef, toastTimer, timers,
                 inflight, probe>>

\* The widget takes the original and modified props of the last render: a
\* region whose prop differs from its text is set to the prop, which is a
\* content change; setting a region to the text it holds may be one too.
WidgetProps ==
  /\ work = "widget"
  /\ \E again \in SUBSET propDirty :
       LET emit == again \cup {r \in propDirty : wtext[r] # st[r]}
           p1 == IF "original" \in emit
                 THEN Deliver(pend, "original", st["original"]) ELSE pend
           p2 == IF "modified" \in emit
                 THEN Deliver(p1, "modified", st["modified"]) ELSE p1
       IN  pend' = p2
  /\ wtext' = [r \in Regions |-> IF r \in propDirty THEN st[r] ELSE wtext[r]]
  /\ propDirty' = {}
  /\ UNCHANGED <<storeVars, st, toast, pendToast, effq, phase, diffEditorRef,
                 listeners, disposablesRef, toastTimer, timers, inflight, probe>>
  /\ work' = IF effq # {} THEN "effects" ELSE IF Pending' THEN "render" ELSE "idle"
  /\ event' = IF pend' # pend THEN "widget" ELSE Settle(work', event)

-----------------------------------------------------------------------------
(* Swap and reset.                                                         *)

\* A bug handleSwap does not have: the second setter reads the buffer the
\* first one has just been given.
handleSwapSequential ==
  /\ Ready
  /\ pend' = Enq(Enq(pend, "original", st["modified"]), "modified", st["modified"])
  /\ work' = AfterHandler
  /\ event' = AfterEvent("swap")
  /\ UNCHANGED <<storeVars, st, toast, pendToast, effq, propDirty, phase,
                 diffEditorRef, wtext, listeners, disposablesRef, toastTimer,
                 timers, inflight, probe>>

\* handleSwap: both setters are given the buffers of the last render.
handleSwap ==
  /\ Ready
  /\ pend' = Enq(Enq(pend, "original", st["modified"]), "modified", st["original"])
  /\ work' = AfterHandler
  /\ event' = AfterEvent("swap")
  /\ UNCHANGED <<storeVars, st, toast, pendToast, effq, propDirty, phase,
                 diffEditorRef, wtext, listeners, disposablesRef, toastTimer,
                 timers, inflight, probe>>

\* A bug handleReset does not have: the font size is left as it is.
handleResetNoFont ==
  /\ Ready
  /\ pend' = [f \in Fields |->
                IF f = "fontSize" THEN pend[f]
                ELSE [n |-> pend[f].n + 1, v |-> initialValue(f)]]
  /\ showToast("Reset")
  /\ work' = AfterHandler
  /\ event' = AfterEvent("reset")
  /\ UNCHANGED <<storeVars, st, toast, effq, propDirty, phase, diffEditorRef,
                 wtext, listeners, disposablesRef, inflight, probe>>

\* handleReset: every setter is called with the field's initial value, then
\* showToast('Reset').
handleReset ==
  /\ Ready
  /\ pend' = [f \in Fields |-> [n |-> pend[f].n + 1, v |-> initialValue(f)]]
  /\ showToast("Reset")
  /\ work' = AfterHandler
  /\ event' = AfterEvent("reset")
  /\ UNCHANGED <<storeVars, st, toast, effq, propDirty, phase, diffEditorRef,
                 wtext, listeners, disposablesRef, inflight, probe>>

-----------------------------------------------------------------------------
(* React's work after a handler.                                           *)

\* A bug useLocalStorageState does not have: an effect without its
\* dependency list, which runs after every render.
EffectsDueAlways(old, new) == Fields

\* A bug useLocalStorageState does not have: the dependency list [key],
\* with which the effect runs on mount alone.
EffectsDueKeyOnly(old, new) == {}

\* The effects of useLocalStorageState that a render makes due: those whose
\* dependencies [key, value] changed.
EffectsDue(old, new) == {f \in Fields : new[f] # old[f]}

\* The order in which App calls useLocalStorageState, which is the order in
\* which React runs the effects that are due.
EffectOrder == <<"original", "modified", "language", "theme", "sideBySide",
                 "ignoreTrimWhitespace", "fontSize">>

\* The field of the first effect of fs in that order.
NextEffect(fs) ==
  EffectOrder[Least({i \in 1..Len(EffectOrder) : EffectOrder[i] \in fs})]

\* A bug React does not have with these handlers: the setter calls of one
\* handler are not batched, and a render applies the first of them alone.
RenderUnbatched ==
  /\ work = "render"
  /\ LET due == {f \in Fields : pend[f].n > 0}
     IN  /\ st' = [f \in Fields |->
                     IF due # {} /\ f = NextEffect(due) THEN pend[f].v ELSE st[f]]
         /\ pend' = [f \in Fields |->
                       IF due # {} /\ f = NextEffect(due) THEN NoPend[f] ELSE pend[f]]
  /\ toast' = IF pendToast.n > 0 THEN pendToast.v ELSE toast
  /\ pendToast' = NoPendToast
  /\ effq' = EffectsDue(st, st')
  /\ propDirty' = IF diffEditorRef = "editor"
                  THEN {r \in Regions : st'[r] # st[r]} ELSE {}
  /\ work' = IF propDirty' # {} THEN "widget"
             ELSE IF effq' # {} THEN "effects"
             ELSE IF Pending' THEN "render" ELSE "idle"
  /\ event' = Settle(work', event)
  /\ UNCHANGED <<storeVars, phase, diffEditorRef, wtext, listeners,
                 disposablesRef, toastTimer, timers, inflight, probe>>

\* The render that applies the queued setter calls.  An effect of
\* useLocalStorageState is due for each field whose value changed, and the
\* widget is due the props that changed.
Render ==
  /\ work = "render"
  /\ st' = [f \in Fields |-> Cur(pend, f)]
  /\ toast' = IF pendToast.n > 0 THEN pendToast.v ELSE toast
  /\ pend' = NoPend
  /\ pendToast' = NoPendToast
  /\ effq' = EffectsDue(st, st')
  /\ propDirty' = IF diffEditorRef = "editor"
                  THEN {r \in Regions : st'[r] # st[r]} ELSE {}
  /\ work' = IF propDirty' # {} THEN "widget"
             ELSE IF effq' # {} THEN "effects" ELSE "idle"
  /\ event' = Settle(work', event)
  /\ UNCHANGED <<storeVars, phase, diffEditorRef, wtext, listeners,
                 disposablesRef, toastTimer, timers, inflight, probe>>

\* A bug the effects do not have: the first due effect runs and the others
\* are dropped.
FlushEffectsFirstOnly ==
  /\ work = "effects"
  /\ LET f == NextEffect(effq)
         w == writeStorage(storage, Key(f), st[f])
     IN  /\ storage' = w.store
         /\ effq' = {}
         /\ phase' = IF w.threw THEN "crashed" ELSE phase
  /\ work' = IF phase' = "crashed" THEN "idle"
             ELSE IF Pending THEN "render" ELSE "idle"
  /\ event' = Settle(work', event)
  /\ UNCHANGED <<access, st, toast, pend, pendToast, propDirty, diffEditorRef,
                 wtext, listeners, disposablesRef, toastTimer, timers,
                 inflight, probe>>

\* The next due effect useEffect(() => writeStorage(key, value),
\* [key, value]) runs: one setItem on the field's key.  An effect that
\* threw would take App down, there being no error boundary.
FlushEffects ==
  /\ work = "effects"
  /\ LET f == NextEffect(effq)
         w == writeStorage(storage, Key(f), st[f])
     IN  /\ storage' = w.store
         /\ effq' = effq \ {f}
         /\ phase' = IF w.threw THEN "crashed" ELSE phase
  /\ work' = IF phase' = "crashed" THEN "idle"
             ELSE IF effq' # {} THEN "effects"
             ELSE IF Pending THEN "render" ELSE "idle"
  /\ event' = Settle(work', event)
  /\ UNCHANGED <<access, st, toast, pend, pendToast, propDirty, diffEditorRef,
                 wtext, listeners, disposablesRef, toastTimer, timers,
                 inflight, probe>>

Next ==
  \/ SetLanguage
  \/ SetTheme
  \/ SetFontSize
  \/ ToggleSideBySide
  \/ ToggleIgnoreTrimWhitespace
  \/ handleSwap
  \/ handleReset
  \/ HandleCopy
  \/ CopyResolve
  \/ TimerFire
  \/ handleMount
  \/ Unmount
  \/ WidgetEdit
  \/ WidgetProps
  \/ Render
  \/ FlushEffects

Spec == Init /\ [][Next]_vars

SpecFailing == InitFailing /\ [][Next]_vars

\* The load and the two controls whose fields the options coerce.
ForeignNext ==
  \/ SetFontSize
  \/ ToggleSideBySide
  \/ Render
  \/ FlushEffects

SpecForeign == InitForeign /\ [][ForeignNext]_vars

\* React runs the work a handler left it: the render, the widget's taking
\* of its props and the effects are each run once they are due.
FairSpec ==
  /\ Spec
  /\ WF_vars(Render)
  /\ WF_vars(WidgetProps)
  /\ WF_vars(FlushEffects)

-----------------------------------------------------------------------------
(* Subscriptions.                                                          *)

\* C3: while the widget is attached, the widget holds exactly one
\* subscription per region, every one of them a handle handleMount kept
\* last (the handles kept before are disposed), and a content change has
\* called the region's setter once, not twice.
OneSubscriptionPerRegion ==
  (phase = "live" /\ diffEditorRef = "editor")
    => /\ \A r \in Regions : Cardinality(ListenersOf(r)) = 1
       /\ listeners = Range(disposablesRef)
       /\ \A r \in Regions : pend[r].n <= 1

\* After a second handleMount (its handles are not the first two), an edit
\* of the original region was delivered once.
OneSubscriptionWitness ==
  /\ phase = "live" /\ diffEditorRef = "editor"
  /\ \E h \in listeners : h.id > 2
  /\ event = "edit" /\ work = "render"
  /\ pend["original"].n = 1
  /\ wtext["original"] # st["original"]

\* C4: after the cleanup no subscription is left, the kept handles are
\* dropped, and no content change after it has called a buffer's setter.
NoSubscriptionAfterDetach ==
  phase = "gone"
    => /\ listeners = {}
       /\ disposablesRef = <<>>
       /\ \A r \in Regions : pend[r].n = 0

\* The widget was attached, App unmounted, and the original region edited
\* after that (its text is no longer the buffer's).
NoSubscriptionWitness ==
  /\ phase = "gone" /\ diffEditorRef = "editor"
  /\ wtext["original"] # st["original"]
  /\ pend["original"].n = 0

\* C5: a content change that leaves a region's text equal to the stored
\* buffer leaves the buffer as it is in the render that follows and makes
\* no persistence effect due for the buffer's field.
DedupNoWrite ==
  [][\A r \in Regions :
       (/\ work = "render" /\ event \in {"edit", "widget"}
        /\ pend[r].n > 0 /\ wtext[r] = st[r])
         => (st'[r] = st[r] /\ r \notin effq')]_vars

\* An edit of the original region to the text the buffer holds was
\* delivered and waits for its render.
DedupWitness ==
  /\ work = "render" /\ event = "edit"
  /\ pend["original"].n = 1
  /\ wtext["original"] = st["original"]

-----------------------------------------------------------------------------
(* Swap and reset.                                                         *)

\* C6: the render after handleSwap makes original the modified buffer of
\* before and modified the original buffer of before, and the render for
\* the content changes the widget reports on taking them leaves both.
SwapExchanges ==
  [][/\ (work = "render" /\ event = "swap")
          => (/\ st'["original"] = st["modified"]
              /\ st'["modified"] = st["original"])
     /\ (work = "render" /\ event = "widget")
          => (\A r \in Regions : st'[r] = st[r])]_vars

\* The swap of the two sample texts has been rendered.
SwapWitness ==
  /\ event = "swap" /\ work # "render"
  /\ st["original"] = SAMPLE_MODIFIED
  /\ st["modified"] = SAMPLE_ORIGINAL

\* C7: the render after handleReset leaves every field at its initial value
\* and the toast at "Reset", and what React does after it until it is idle
\* (the widget taking its props, the effects, the render for the content
\* changes the widget reports) leaves them so.
ResetRestores ==
  [][/\ (work = "render" /\ event = "reset")
          => (/\ st' = [f \in Fields |-> initialValue(f)]
              /\ toast' = "Reset")
     /\ (event \in {"reset", "widget"} /\ ~(event = "reset" /\ work = "render"))
          => (st' = st /\ toast' = toast)]_vars

\* handleReset ran with every field off its initial value.
ResetWitness ==
  /\ work = "render" /\ event = "reset"
  /\ \A f \in Fields : st[f] # initialValue(f)

-----------------------------------------------------------------------------
(* The toast.                                                              *)

\* The message of the last showToast or timer expiry.
CurToast == IF pendToast.n > 0 THEN pendToast.v ELSE toast

\* C8: at most one timeout is pending.
AtMostOneTimer == Cardinality(timers) <= 1

\* "Copied" is on screen, its timer was cleared by handleReset's showToast,
\* and the one pending timer is that of "Reset".
AtMostOneTimerWitness ==
  /\ toast = "Copied"
  /\ pendToast = [n |-> 1, v |-> "Reset"]
  /\ \E t \in timers : t.msg = "Reset"

\* C9: a pending timer is the one the last showToast set, for the message
\* it showed (the timer of a toast that was replaced never fires), and the
\* render after a timer's expiry leaves no toast.
NotificationExpiry ==
  [][/\ \A t \in timers' : t.id = toastTimer' /\ t.msg = CurToast'
     /\ (work = "render" /\ event = "timer") => toast' = NoToast]_vars

\* "Reset" is on screen and a copy's showToast has replaced its timer.
NotificationExpiryWitness ==
  /\ toast = "Reset"
  /\ pendToast = [n |-> 1, v |-> "Copied"]
  /\ timers = {[id |-> toastTimer, msg |-> "Copied"]}

-----------------------------------------------------------------------------
(* The clipboard.                                                          *)

\* C10: when a clipboard write resolves, copyToClipboard throws nothing and
\* handleCopy calls showToast once, with "Copied" if the text was written
\* and "Copy failed" if the write was rejected or the clipboard is missing.
CopyReportsOutcome ==
  [][(inflight # <<>> /\ inflight' = Tail(inflight))
       => LET message == IF Head(inflight) = "written" THEN "Copied"
                         ELSE "Copy failed"
          IN  /\ ~copyToClipboard(Head(inflight)).threw
              /\ pendToast' = [n |-> pendToast.n + 1, v |-> message]
              /\ \E t \in timers' : t.id = toastTimer' /\ t.msg = message]_vars

\* A rejected write has resolved and "Copy failed" waits for its render.
CopyReportsWitness ==
  /\ work = "render" /\ event = "copy"
  /\ pendToast = [n |-> 1, v |-> "Copy failed"]
  /\ \E t \in timers : t.msg = "Copy failed"

-----------------------------------------------------------------------------
(* Persistence of the fields.                                              *)

\* C11 as stated: the render after a setter call makes a write of the
\* field's key due, whether or not the call changed the value.
SetterAlwaysWrites ==
  [][\A f \in Fields :
       (work = "render" /\ pend[f].n > 0) => f \in effq']_vars

\* C11: the render after a setter call makes a write of the field's key due
\* exactly when the call changed the field's value; each due write is one
\* setItem of the field's value on the field's key alone, and none is left
\* due when React is idle.
SetterWritesOnChange ==
  [][/\ work = "render"
          => \A f \in Fields :
               f \in effq' <=> (pend[f].n > 0 /\ pend[f].v # st[f])
     /\ work = "effects"
          => \E f \in effq :
               /\ effq' = effq \ {f}
               /\ storage' = Put(storage, Key(f), JSONstringify(st[f]))
     /\ work' = "idle" => effq' = {}]_vars

\* The language control was set to the language it shows, and the call
\* waits for its render.
SetterWritesWitness ==
  /\ work = "render" /\ event = "language"
  /\ pend["language"] = [n |-> 1, v |-> st["language"]]

-----------------------------------------------------------------------------
(* The font size.                                                          *)

\* C12 as stated: the font size that a change of the font size input brings
\* into the state is the number of the input, and 14 when the input holds
\* no number.
FontSizeFallsBack ==
  (event = "fontSize" /\ work = "effects")
    => \E input \in FontInputs :
         st["fontSize"] = IF input # <<>> /\ JSNumber(input).t = "num"
                          THEN JSNumber(input) ELSE JNum(14)

\* C12: the font size input's onChange calls the setter with Number() of
\* what the input hands over, which is 0 for the empty string, and that
\* number is what the state holds and the storage is given; the field, loaded
\* from a storage that App wrote, holds a number and never NaN; 14 stands in
\* for 0 in the widget's options alone.
FontSizeCoerced ==
  /\ (event = "fontSize" /\ work = "render")
       => \E input \in FontInputs : pend["fontSize"].v = JSNumber(input)
  /\ (event = "fontSize" /\ work = "effects")
       => \E input \in FontInputs : st["fontSize"] = JSNumber(input)
  /\ st["fontSize"].t = "num"
  /\ (work = "idle" /\ phase = "live")
       => storage[Key("fontSize")] = NatToDigits(st["fontSize"].n)
  /\ options(st).fontSize =
       IF st["fontSize"] = JNum(0) THEN JNum(14) ELSE st["fontSize"]

\* The font size input was emptied: the state holds 0, the storage "0", and
\* the widget is handed 14.
FontSizeCoercedWitness ==
  /\ work = "idle" /\ phase = "live"
  /\ st["fontSize"] = JNum(0)
  /\ storage[Key("fontSize")] = <<"0">>
  /\ options(st).fontSize = JNum(14)

-----------------------------------------------------------------------------
(* The buffers and the widget.                                             *)

\* C13: whenever React is idle (no content change, setter call, render or
\* effect is pending) and the widget is attached, the original buffer is
\* the text of the widget's original side and the modified buffer the text
\* of its modified side.
BuffersMatchWidget ==
  (phase = "live" /\ work = "idle" /\ diffEditorRef = "editor")
    => \A r \in Regions : st[r] = wtext[r]

\* Both sides of the widget hold the same text, which no swap, reset or
\* load brings about without an edit, and so do the two buffers.
BuffersMatchWitness ==
  /\ phase = "live" /\ work = "idle" /\ diffEditorRef = "editor"
  /\ wtext["original"] = SAMPLE_MODIFIED
  /\ wtext["modified"] = SAMPLE_MODIFIED
  /\ st["original"] = SAMPLE_MODIFIED
  /\ st["modified"] = SAMPLE_MODIFIED

-----------------------------------------------------------------------------
(* Teardown.                                                               *)

\* C14: once App is unmounted no toast timer is pending and no toast is
\* waiting to be shown, whatever ran before or runs after the unmount.
NoTimerAfterTeardown ==
  phase = "gone" => (timers = {} /\ pendToast.n = 0)

-----------------------------------------------------------------------------
(* Swap as one step.                                                       *)

\* C15 as stated: the buffers go from the pair before the swap to the
\* exchanged pair in one step, in the state and in the storage: when the
\* storage holds the two buffers the other way round than the state, the
\* next write leaves it holding both as the state does.
SwapNeverHalfObserved ==
  [][/\ event = "swap"
          => \/ \A r \in Regions : st'[r] = st[r]
             \/ /\ st'["original"] = st["modified"]
                /\ st'["modified"] = st["original"]
     /\ (/\ work = "effects"
         /\ \A r \in Regions : Key(r) \in DOMAIN storage
         /\ st["original"] # st["modified"]
         /\ storage[Key("original")] = JSONstringify(st["modified"])
         /\ storage[Key("modified")] = JSONstringify(st["original"]))
          => \A r \in Regions : storage'[Key(r)] = JSONstringify(st[r])]_vars

\* C15: the render after handleSwap exchanges the two buffers together and
\* no other step of the swap changes them; the widget takes the two props
\* of that render together; each write stores under a buffer's key the
\* buffer of the finished swap.  The two keys are written one after the
\* other, original first.
SwapInOneRender ==
  [][/\ event = "swap"
          => \/ \A r \in Regions : st'[r] = st[r]
             \/ /\ work = "render"
                /\ st'["original"] = st["modified"]
                /\ st'["modified"] = st["original"]
     /\ (event = "swap" /\ work = "widget")
          => \A r \in Regions : wtext'[r] = st[r]
     /\ (work = "effects" /\ Regions \subseteq effq)
          => /\ storage'[Key("original")] = JSONstringify(st["original"])
             /\ effq' = effq \ {"original"}
     /\ (work = "effects" /\ "modified" \in effq /\ "original" \notin effq)
          => /\ storage'[Key("modified")] = JSONstringify(st["modified"])
             /\ storage'[Key("original")] = storage[Key("original")]]_vars

\* The swap has been rendered: the state holds the exchanged buffers, and
\* the widget is about to take its props and both writes are due.
SwapInOneRenderWitness ==
  /\ event = "swap" /\ work = "widget"
  /\ propDirty = Regions
  /\ Regions \subseteq effq
  /\ st["original"] = wtext["modified"]
  /\ st["modified"] = wtext["original"]
  /\ storage[Key("original")] = JSONstringify(st["modified"])

-----------------------------------------------------------------------------
(* Copy leaves the fields alone.                                           *)

\* C16: handleCopy, up to its await and from it on, for either buffer and
\* every outcome of the clipboard write, leaves the seven fields, the
\* setter calls queued for them, the options, the widget's texts and the
\* storage as they are, and so does the render of its toast; the toast is
\* all that it changes.
CopyLeavesFields ==
  [][/\ inflight' # inflight
          => /\ st' = st /\ pend' = pend
             /\ options(st') = options(st)
             /\ wtext' = wtext /\ storage' = storage
             /\ toast' = toast
     /\ (inflight # <<>> /\ inflight' = Tail(inflight))
          => pendToast'.n = pendToast.n + 1
     /\ event = "copy"
          => /\ st' = st /\ pend' = pend
             /\ options(st') = options(st)
             /\ wtext' = wtext /\ storage' = storage
             /\ effq' = {}]_vars

\* A copy made with the buffers equal and the font size off its default
\* has resolved, and its toast waits for its render.
CopyLeavesFieldsWitness ==
  /\ event = "copy" /\ work = "render"
  /\ pendToast = [n |-> 1, v |-> "Copied"]
  /\ st["original"] = st["modified"]
  /\ st["fontSize"] = JNum(18)
  /\ st["sideBySide"] = JBool(FALSE)

-----------------------------------------------------------------------------
(* A storage that takes no write.                                          *)

\* C17: with a storage whose setItem throws, each due effect runs its
\* writeStorage, which throws nothing: App stays mounted, the storage and
\* the fields are as before the write, and every render, the later ones
\* too, gives each field the value its setter was last called with.
FailedWriteAbsorbed ==
  [][/\ work = "effects"
          => /\ ~writeStorage(storage, Key(NextEffect(effq)),
                              st[NextEffect(effq)]).threw
             /\ effq' = effq \ {NextEffect(effq)}
             /\ storage' = storage
             /\ st' = st /\ pend' = pend
     /\ work = "render"
          => \A f \in Fields :
               st'[f] = IF pend[f].n > 0 THEN pend[f].v ELSE st[f]
     /\ phase' # "crashed"]_vars

\* With the quota used up, the theme and the font size were set one after
\* the other: the state holds both new values, the storage the old ones.
FailedWriteWitness ==
  /\ access = "quota" /\ storage = SavedStore
  /\ phase = "live" /\ work = "idle"
  /\ st["theme"] = JStr(<<"vs-dark">>)
  /\ st["fontSize"] = JNum(0)
  /\ st["original"] = SAMPLE_ORIGINAL

-----------------------------------------------------------------------------
(* No feedback loop.                                                       *)

\* C18: whatever a handler or a content change left React to do, React
\* becomes idle: the chain of render, props taken by the widget, content
\* changes reported by the widget and render of those comes to an end.
NoFeedbackLoop == (work # "idle") ~> (work = "idle")

\* The widget has taken the props of a swap and reported the content change
\* of both regions; the render of the two setter calls is due.
NoFeedbackLoopWitness ==
  /\ event = "widget" /\ work = "render"
  /\ pend["original"] = [n |-> 1, v |-> st["original"]]
  /\ pend["modified"] = [n |-> 1, v |-> st["modified"]]
  /\ wtext["original"] = st["original"]
  /\ wtext["modified"] = st["modified"]

-----------------------------------------------------------------------------
(* The storage mirrors the fields.                                         *)

\* C19: whenever React is idle, from the mount effects of the load on, the
\* storage holds under the key of each of the seven fields a text that
\* JSON.parse turns into the value the field holds, and holds no other key.
StorageMirrorsFields ==
  work = "idle"
    => /\ DOMAIN storage = Keys
       /\ \A f \in Fields :
            JSONparse(storage[Key(f)]) = [ok |-> TRUE, val |-> st[f]]

\* After a load and changes to fields of each kind (a buffer edited to the
\* text of the other, the language, the side-by-side toggle, the font size
\* input emptied) the storage holds each under its key.
StorageMirrorsWitness ==
  /\ work = "idle" /\ phase = "live"
  /\ st["original"] = st["modified"]
  /\ st["language"] = JStr(<<"plaintext">>)
  /\ st["sideBySide"] = JBool(FALSE)
  /\ st["fontSize"] = JNum(0)
  /\ st["theme"] = JStr(<<"vs-dark">>)
  /\ storage[Key("original")] = JSONstringify(st["modified"])
  /\ storage[Key("sideBySide")] = <<"f", "a", "l", "s", "e">>
  /\ storage[Key("fontSize")] = <<"0">>

-----------------------------------------------------------------------------
(* The font size handed to the widget.                                     *)

\* C20: the font size in the widget's options is a number other than 0: it
\* is the field's value when that is a number other than 0, the value of
\* the numeral when the field holds the string of a numeral other than 0,
\* 1 when it holds true, and 14 in every other case (0, NaN, null, false,
\* the empty string, a string that is no numeral).
OptionsFontSize ==
  LET v == st["fontSize"]
      o == options(st).fontSize
  IN  /\ o.t = "num" /\ o.n # 0
      /\ o = CASE v.t = "num"  -> IF v.n # 0 THEN v ELSE JNum(14)
               [] v.t = "str"  -> IF /\ v.s # <<>>
                                     /\ \A i \in 1..Len(v.s) : IsDigit(v.s[i])
                                     /\ DigitsToNat(v.s) # 0
                                  THEN JNum(DigitsToNat(v.s)) ELSE JNum(14)
               [] v.t = "bool" -> IF v.b THEN JNum(1) ELSE JNum(14)
               [] OTHER        -> JNum(14)

\* The stored font size was a string that is no numeral: the field holds
\* it, written back by the mount effect, and the widget is handed 14.
OptionsFontSizeWitness ==
  /\ work = "idle" /\ phase = "live"
  /\ st["fontSize"] = JStr(<<"a">>)
  /\ ToNumber(st["fontSize"]) = JNaN
  /\ options(st).fontSize = JNum(14)

====
